---- MODULE Spec2Model ----
(***************************************************************************)
(* Model of prisma-utils' transaction helpers:                             *)
(*   watchedTransaction      (src/src/utils/transaction.ts)                *)
(*   useTransactionManager   (src/src/prisma-helper.ts, src/unnamed/part_000) *)
(* A call wraps prisma.$transaction, hands a watcher / manager to exec,    *)
(* and after the transaction settles fires the watcher's success or error  *)
(* handler list, without awaiting it.                                      *)
(*                                                                         *)
(* One step of the model is one JavaScript job (run to completion): the    *)
(* code between two awaits. prisma.$transaction is the external            *)
(* collaborator: it invokes the callback at most once, commits when the    *)
(* callback resolves, rolls back when it rejects, and its promise settles  *)
(* only after the callback has settled.                                    *)
(***************************************************************************)
EXTENDS Integers, Sequences, FiniteSets, TLC

\* Bound: total number of handlers registered on one watcher.
MaxHandlers == 2

\* The two calls of the model: "outer" is called with a PrismaClient and no
\* existingWatcher; "nested" is a watchedTransaction call that is handed the
\* outer call's watcher as options.existingWatcher.
Calls == {"outer", "nested"}

\* "watcher": watchedTransaction / _TransactionWatcher (handlers return T).
\* "manager": useTransactionManager / _TransactionManager (handlers return void).
Variants == {"watcher", "manager"}

\* Values exec may resolve with, errors exec may reject with.
ResultValues == {5}
ExecErrors == {"e1"}
\* Error of a failed commit, of a transaction that could not be started, and
\* the error a failing handler throws.
CommitError == "commitErr"
BeginError == "beginErr"
HandlerError == "hErr"

\* What a registered handler does when it is invoked:
\*   keep   - resolves with the value it received
\*   bump   - resolves with a new value of the same type
\*   reject - returns a promise that rejects
\*   throw  - throws synchronously
\*   hang   - returns a promise that never settles
HandlerKinds == {"keep", "bump", "reject", "throw", "hang"}

\* Promise outcomes.
Pending == [kind |-> "none", val |-> 0, err |-> ""]
Resolved(v) == [kind |-> "resolved", val |-> v, err |-> ""]
Rejected(e) == [kind |-> "rejected", val |-> 0, err |-> e]

VARIABLES
  variant,        \* which of the two implementations is running
  pc,             \* position of each call
  watcher,        \* the watcher created by each call's $transaction callback
  execWatcher,    \* the watcher each call passed to exec ("none" before)
  txStarted,      \* whether the call has called prisma.$transaction
  execOutcome,    \* how exec settled
  txOutcome,      \* how prisma.$transaction settled
  callerOutcome,  \* how the promise returned to the caller settled
  chain,          \* progress of each watcher's handler loop
  events,         \* log of handler invocations and settlements
  successLogged,  \* errors passed to successHandlerErrorLogger
  errorLogged,    \* errors passed to errorHandlerErrorLogger
  lastCall,       \* result of the latest onSuccess / onError / client access
  nestedRegs,     \* the handlers that were registered by the nested call's exec
  ut,             \* the useTransaction calls
  ipe,            \* the isPrismaError(error, errorCode, targetList, modelName) call
  ipp             \* the isPrismaError(error, errorCode, metaPatterns, messagePatterns) calls

vars == <<variant, pc, watcher, execWatcher, txStarted, execOutcome, txOutcome,
          callerOutcome, chain, events, successLogged, errorLogged, lastCall,
          nestedRegs, ut, ipe, ipp>>

\* The variables of watchedTransaction / useTransactionManager.
watchVars == <<variant, pc, watcher, execWatcher, txStarted, execOutcome, txOutcome,
               callerOutcome, chain, events, successLogged, errorLogged, lastCall,
               nestedRegs>>

\* new _TransactionWatcher(client): empty lists, _isTerminated = false.
NoWatcher ==
  [created |-> FALSE, successHandlers |-> <<>>, errorHandlers |-> <<>>,
   isTerminated |-> FALSE]
NewWatcher ==
  [created |-> TRUE, successHandlers |-> <<>>, errorHandlers |-> <<>>,
   isTerminated |-> FALSE]

IdleChain == [list |-> "none", state |-> "idle", idx |-> 0, val |-> 0, err |-> ""]

NoCall == [op |-> "none", w |-> "none", threw |-> FALSE]

\* options.existingWatcher of each call.
ExistingWatcher(c) == IF c = "nested" THEN "outer" ELSE "none"

UseExisting_Never(ew) == FALSE
\* if (existingWatcher) { return exec(existingWatcher); }
UseExisting(ew) == ew # "none"

AssertNotTerminated_Off(wr) == FALSE
\* _assertNotTerminated: TRUE when it throws.
AssertNotTerminated(wr) == wr.isTerminated

Terminate_Skip(wr) == wr
\* this._isTerminated = true;
Terminate(wr) == [wr EXCEPT !.isTerminated = TRUE]

HandlerAt_Reversed(hs, k) == hs[Len(hs) + 1 - k]
\* for (const handler of handlers): the k-th handler of the iteration.
HandlerAt(hs, k) == hs[k]

\* The value a handler's promise resolves with.
HandlerReturn(h, arg) == IF h = "bump" THEN arg + 1 ELSE arg

NextResult_Original(v, list, val, ret) == val
\* result = await handler(result) in _TransactionWatcher's success loop;
\* await handler(result) / await handler(error) everywhere else.
NextResult(v, list, val, ret) ==
  IF v = "watcher" /\ list = "success" THEN ret ELSE val

FiredList_ByExec(eo, to) == IF eo.kind = "resolved" THEN "success" ELSE "error"
\* try { result = await prisma.$transaction(..); <success> } catch { <error> }
FiredList(eo, to) == IF to.kind = "resolved" THEN "success" ELSE "error"

Rethrown_Wrapped(e) == "wrapped"
\* throw error;
Rethrown(e) == e

AwaitsHandlers_Yes == TRUE
\* The handler promise is only given a .catch(logger); it is not awaited.
AwaitsHandlers == FALSE

LoggerFor_Swapped(list) == IF list = "success" THEN "error" ELSE "success"
\* .catch(successHandlerErrorLogger) / .catch(errorHandlerErrorLogger)
LoggerFor(list) == list

TxSettled_Early(c) == pc[c] \in {"committing", "rollingBack", "settled"}
\* The code after `await prisma.$transaction(...)` runs once that promise
\* has settled.
TxSettled(c) == pc[c] = "settled"

NextIndex_Skip(k) == k + 2
\* The for..of loop goes on to the handler after the one it awaited.
NextIndex(k) == k + 1

HandlersOf(wr, list) ==
  IF list = "success" THEN wr.successHandlers ELSE wr.errorHandlers

Ev(w, ev, list, k, h, val, err) ==
  [w |-> w, ev |-> ev, list |-> list, idx |-> k, h |-> h, val |-> val, err |-> err]

\* One turn of the handler loop from position k: invoke handler k (the call
\* is synchronous, so a handler that throws fails the loop at once), or leave
\* the loop when the list is exhausted.
InvokeFrom(w, list, hs, k, val, err, evs) ==
  IF k > Len(hs)
  THEN [chain |-> [list |-> list, state |-> "done", idx |-> Len(hs),
                   val |-> val, err |-> err],
        events |-> evs]
  ELSE LET h == HandlerAt(hs, k)
           inv == Ev(w, "invoke", list, k, h, val, err)
       IN IF h = "throw"
          THEN [chain |-> [list |-> list, state |-> "failed", idx |-> k,
                           val |-> val, err |-> err],
                events |-> evs \o <<inv, Ev(w, "reject", list, k, h, 0, HandlerError)>>]
          ELSE [chain |-> [list |-> list, state |-> "awaiting", idx |-> k,
                           val |-> val, err |-> err],
                events |-> Append(evs, inv)]

\* The two useTransaction calls of the model: the second may be made from
\* inside the first one's exec, with the first one's transaction client.
UTCalls == {"first", "second"}

NoClient == [id |-> "none", isInstance |-> FALSE, hasTransaction |-> FALSE]

\* A useTransaction call that has not been made.
UTIdle ==
  [pc |-> "idle", client |-> NoClient, txCount |-> 0, execCount |-> 0,
   execClient |-> NoClient, txClient |-> NoClient, execOutcome |-> Pending,
   txOutcome |-> Pending, outcome |-> Pending]

\* No isPrismaError call has been made.
IPEIdle == [phase |-> "off"]

\* No pattern-based isPrismaError call has been made.
IPPIdle == [phase |-> "off"]

\* The state before watchedTransaction / useTransactionManager is called.
WatchInit ==
  /\ variant \in Variants
  /\ pc = [c \in Calls |-> "idle"]
  /\ watcher = [c \in Calls |-> NoWatcher]
  /\ execWatcher = [c \in Calls |-> "none"]
  /\ txStarted = [c \in Calls |-> FALSE]
  /\ execOutcome = [c \in Calls |-> Pending]
  /\ txOutcome = [c \in Calls |-> Pending]
  /\ callerOutcome = [c \in Calls |-> Pending]
  /\ chain = [c \in Calls |-> IdleChain]
  /\ events = <<>>
  /\ successLogged = <<>>
  /\ errorLogged = <<>>
  /\ lastCall = NoCall
  /\ nestedRegs = {}

Init ==
  /\ WatchInit
  /\ ut = [c \in UTCalls |-> UTIdle]
  /\ ipe = IPEIdle
  /\ ipp = IPPIdle

\* watchedTransaction(options, exec) / useTransactionManager(prisma, exec)
\* up to its first await.
Call(c) ==
  /\ pc[c] = "idle"
  /\ ExistingWatcher(c) # "none" =>
       /\ variant = "watcher"
       /\ watcher[ExistingWatcher(c)].created
  /\ IF UseExisting(ExistingWatcher(c))
     THEN /\ pc' = [pc EXCEPT ![c] = "exec"]
          /\ execWatcher' = [execWatcher EXCEPT ![c] = ExistingWatcher(c)]
          /\ UNCHANGED txStarted
     ELSE /\ pc' = [pc EXCEPT ![c] = "starting"]
          /\ txStarted' = [txStarted EXCEPT ![c] = TRUE]
          /\ UNCHANGED execWatcher
  /\ UNCHANGED <<nestedRegs, ut, ipe, ipp>>
  /\ UNCHANGED <<variant, watcher, execOutcome, txOutcome, callerOutcome,
                 chain, events, successLogged, errorLogged, lastCall>>

\* prisma.$transaction rejects without having invoked the callback.
TxBeginFail(c) ==
  /\ pc[c] = "starting"
  /\ txOutcome' = [txOutcome EXCEPT ![c] = Rejected(BeginError)]
  /\ pc' = [pc EXCEPT ![c] = "settled"]
  /\ UNCHANGED <<nestedRegs, ut, ipe, ipp>>
  /\ UNCHANGED <<variant, watcher, execWatcher, txStarted, execOutcome,
                 callerOutcome, chain, events, successLogged, errorLogged, lastCall>>

\* The callback given to prisma.$transaction: create the watcher, call exec.
TxCallback(c) ==
  /\ pc[c] = "starting"
  /\ watcher' = [watcher EXCEPT ![c] = NewWatcher]
  /\ execWatcher' = [execWatcher EXCEPT ![c] = c]
  /\ pc' = [pc EXCEPT ![c] = "exec"]
  /\ UNCHANGED <<nestedRegs, ut, ipe, ipp>>
  /\ UNCHANGED <<variant, txStarted, execOutcome, txOutcome, callerOutcome,
                 chain, events, successLogged, errorLogged, lastCall>>

\* watcher.onSuccess(handler), by any holder of the watcher.
OnSuccess(w, h) ==
  /\ watcher[w].created
  /\ IF AssertNotTerminated(watcher[w])
     THEN /\ lastCall' = [op |-> "onSuccess", w |-> w, threw |-> TRUE]
          /\ UNCHANGED watcher
     ELSE /\ Len(watcher[w].successHandlers) + Len(watcher[w].errorHandlers) < MaxHandlers
          /\ watcher' = [watcher EXCEPT ![w].successHandlers = Append(@, h)]
          /\ lastCall' = [op |-> "onSuccess", w |-> w, threw |-> FALSE]
  /\ UNCHANGED <<nestedRegs, ut, ipe, ipp>>
  /\ UNCHANGED <<variant, pc, execWatcher, txStarted, execOutcome, txOutcome,
                 callerOutcome, chain, events, successLogged, errorLogged>>

\* watcher.onError(handler), by any holder of the watcher.
OnError(w, h) ==
  /\ watcher[w].created
  /\ IF AssertNotTerminated(watcher[w])
     THEN /\ lastCall' = [op |-> "onError", w |-> w, threw |-> TRUE]
          /\ UNCHANGED watcher
     ELSE /\ Len(watcher[w].successHandlers) + Len(watcher[w].errorHandlers) < MaxHandlers
          /\ watcher' = [watcher EXCEPT ![w].errorHandlers = Append(@, h)]
          /\ lastCall' = [op |-> "onError", w |-> w, threw |-> FALSE]
  /\ UNCHANGED <<nestedRegs, ut, ipe, ipp>>
  /\ UNCHANGED <<variant, pc, execWatcher, txStarted, execOutcome, txOutcome,
                 callerOutcome, chain, events, successLogged, errorLogged>>

\* A read of watcher.client.
ReadClient(w) ==
  /\ watcher[w].created
  /\ lastCall' = [op |-> "client", w |-> w, threw |-> AssertNotTerminated(watcher[w])]
  /\ UNCHANGED <<nestedRegs, ut, ipe, ipp>>
  /\ UNCHANGED <<variant, pc, watcher, execWatcher, txStarted, execOutcome,
                 txOutcome, callerOutcome, chain, events, successLogged, errorLogged>>

\* exec's promise resolves with v. With an existing watcher the call returns
\* exec's promise itself; otherwise $transaction goes on to commit.
ExecReturn(c, v) ==
  /\ pc[c] = "exec"
  /\ execOutcome' = [execOutcome EXCEPT ![c] = Resolved(v)]
  /\ IF UseExisting(ExistingWatcher(c))
     THEN /\ callerOutcome' = [callerOutcome EXCEPT ![c] = Resolved(v)]
          /\ pc' = [pc EXCEPT ![c] = "returned"]
     ELSE /\ pc' = [pc EXCEPT ![c] = "committing"]
          /\ UNCHANGED callerOutcome
  /\ UNCHANGED <<nestedRegs, ut, ipe, ipp>>
  /\ UNCHANGED <<variant, watcher, execWatcher, txStarted, txOutcome, chain,
                 events, successLogged, errorLogged, lastCall>>

\* exec's promise rejects with e.
ExecThrow(c, e) ==
  /\ pc[c] = "exec"
  /\ execOutcome' = [execOutcome EXCEPT ![c] = Rejected(e)]
  /\ IF UseExisting(ExistingWatcher(c))
     THEN /\ callerOutcome' = [callerOutcome EXCEPT ![c] = Rejected(e)]
          /\ pc' = [pc EXCEPT ![c] = "returned"]
     ELSE /\ pc' = [pc EXCEPT ![c] = "rollingBack"]
          /\ UNCHANGED callerOutcome
  /\ UNCHANGED <<nestedRegs, ut, ipe, ipp>>
  /\ UNCHANGED <<variant, watcher, execWatcher, txStarted, txOutcome, chain,
                 events, successLogged, errorLogged, lastCall>>

\* The commit succeeds: $transaction resolves with exec's value.
Commit(c) ==
  /\ pc[c] = "committing"
  /\ txOutcome' = [txOutcome EXCEPT ![c] = execOutcome[c]]
  /\ pc' = [pc EXCEPT ![c] = "settled"]
  /\ UNCHANGED <<nestedRegs, ut, ipe, ipp>>
  /\ UNCHANGED <<variant, watcher, execWatcher, txStarted, execOutcome,
                 callerOutcome, chain, events, successLogged, errorLogged, lastCall>>

\* The commit fails: $transaction rejects although exec returned normally.
CommitFail(c) ==
  /\ pc[c] = "committing"
  /\ txOutcome' = [txOutcome EXCEPT ![c] = Rejected(CommitError)]
  /\ pc' = [pc EXCEPT ![c] = "settled"]
  /\ UNCHANGED <<nestedRegs, ut, ipe, ipp>>
  /\ UNCHANGED <<variant, watcher, execWatcher, txStarted, execOutcome,
                 callerOutcome, chain, events, successLogged, errorLogged, lastCall>>

\* The rollback completes: $transaction rejects with exec's error.
Rollback(c) ==
  /\ pc[c] = "rollingBack"
  /\ txOutcome' = [txOutcome EXCEPT ![c] = execOutcome[c]]
  /\ pc' = [pc EXCEPT ![c] = "settled"]
  /\ UNCHANGED <<nestedRegs, ut, ipe, ipp>>
  /\ UNCHANGED <<variant, watcher, execWatcher, txStarted, execOutcome,
                 callerOutcome, chain, events, successLogged, errorLogged, lastCall>>

\* The position of a call whose own code has finished.
AfterSettle == IF AwaitsHandlers THEN "waiting" ELSE "returned"

\* The job that resumes the call after `await prisma.$transaction(...)`
\* resolved: start the success handler loop (it runs synchronously up to its
\* first await) and return the result.
SettleSuccess(c) ==
  /\ TxSettled(c)
  /\ FiredList(execOutcome[c], txOutcome[c]) = "success"
  /\ LET r == InvokeFrom(c, "success", watcher[c].successHandlers, 1,
                         txOutcome[c].val, "", events)
     IN /\ watcher' = [watcher EXCEPT ![c] = Terminate(@)]
        /\ chain' = [chain EXCEPT ![c] = r.chain]
        /\ events' = r.events
  /\ callerOutcome' = [callerOutcome EXCEPT ![c] = Resolved(txOutcome[c].val)]
  /\ pc' = [pc EXCEPT ![c] = AfterSettle]
  /\ UNCHANGED <<nestedRegs, ut, ipe, ipp>>
  /\ UNCHANGED <<variant, execWatcher, txStarted, execOutcome, txOutcome,
                 successLogged, errorLogged, lastCall>>

\* The catch block: if the watcher exists start the error handler loop, then
\* rethrow.
SettleError(c) ==
  /\ TxSettled(c)
  /\ FiredList(execOutcome[c], txOutcome[c]) = "error"
  /\ IF watcher[c].created
     THEN LET r == InvokeFrom(c, "error", watcher[c].errorHandlers, 1,
                              0, txOutcome[c].err, events)
          IN /\ watcher' = [watcher EXCEPT ![c] = Terminate(@)]
             /\ chain' = [chain EXCEPT ![c] = r.chain]
             /\ events' = r.events
     ELSE UNCHANGED <<watcher, chain, events>>
  /\ callerOutcome' = [callerOutcome EXCEPT ![c] = Rejected(Rethrown(txOutcome[c].err))]
  /\ pc' = [pc EXCEPT ![c] = AfterSettle]
  /\ UNCHANGED <<nestedRegs, ut, ipe, ipp>>
  /\ UNCHANGED <<variant, execWatcher, txStarted, execOutcome, txOutcome,
                 successLogged, errorLogged, lastCall>>

\* The promise of the handler being awaited resolves: the loop takes its
\* value (or not) and goes on to the next handler.
HandlerResolve(w) ==
  /\ chain[w].state = "awaiting"
  /\ LET ch == chain[w]
         hs == HandlersOf(watcher[w], ch.list)
         h == HandlerAt(hs, ch.idx)
         ret == HandlerReturn(h, ch.val)
         nv == NextResult(variant, ch.list, ch.val, ret)
         r == InvokeFrom(w, ch.list, hs, NextIndex(ch.idx), nv, ch.err,
                         Append(events, Ev(w, "resolve", ch.list, ch.idx, h, ret, "")))
     IN /\ h \in {"keep", "bump"}
        /\ chain' = [chain EXCEPT ![w] = r.chain]
        /\ events' = r.events
  /\ UNCHANGED <<nestedRegs, ut, ipe, ipp>>
  /\ UNCHANGED <<variant, pc, watcher, execWatcher, txStarted, execOutcome,
                 txOutcome, callerOutcome, successLogged, errorLogged, lastCall>>

\* The promise of the handler being awaited rejects: the loop ends with that
\* error.
HandlerReject(w) ==
  /\ chain[w].state = "awaiting"
  /\ LET ch == chain[w]
         hs == HandlersOf(watcher[w], ch.list)
         h == HandlerAt(hs, ch.idx)
     IN /\ h = "reject"
        /\ chain' = [chain EXCEPT ![w].state = "failed"]
        /\ events' = Append(events, Ev(w, "reject", ch.list, ch.idx, h, 0, HandlerError))
  /\ UNCHANGED <<nestedRegs, ut, ipe, ipp>>
  /\ UNCHANGED <<variant, pc, watcher, execWatcher, txStarted, execOutcome,
                 txOutcome, callerOutcome, successLogged, errorLogged, lastCall>>

\* The .catch callback of the rejected handler loop: the logger is called.
LoggerCall(w) ==
  /\ chain[w].state = "failed"
  /\ chain' = [chain EXCEPT ![w].state = "logged"]
  /\ IF LoggerFor(chain[w].list) = "success"
     THEN /\ successLogged' = Append(successLogged, HandlerError)
          /\ UNCHANGED errorLogged
     ELSE /\ errorLogged' = Append(errorLogged, HandlerError)
          /\ UNCHANGED successLogged
  /\ UNCHANGED <<nestedRegs, ut, ipe, ipp>>
  /\ UNCHANGED <<variant, pc, watcher, execWatcher, txStarted, execOutcome,
                 txOutcome, callerOutcome, events, lastCall>>

\* exec of a call that was given an existing watcher registers a success
\* handler on the watcher it received.
NestedOnSuccess(c, h) ==
  /\ pc[c] = "exec"
  /\ ExistingWatcher(c) # "none"
  /\ LET w == execWatcher[c] IN
       /\ ~AssertNotTerminated(watcher[w])
       /\ Len(watcher[w].successHandlers) + Len(watcher[w].errorHandlers) < MaxHandlers
       /\ watcher' = [watcher EXCEPT ![w].successHandlers = Append(@, h)]
       /\ lastCall' = [op |-> "onSuccess", w |-> w, threw |-> FALSE]
       /\ nestedRegs' = nestedRegs \cup
            {[w |-> w, list |-> "success", idx |-> Len(watcher[w].successHandlers) + 1]}
  /\ UNCHANGED <<ut, ipe, ipp>>
  /\ UNCHANGED <<variant, pc, execWatcher, txStarted, execOutcome, txOutcome,
                 callerOutcome, chain, events, successLogged, errorLogged>>

\* exec of a call that was given an existing watcher registers an error
\* handler on the watcher it received.
NestedOnError(c, h) ==
  /\ pc[c] = "exec"
  /\ ExistingWatcher(c) # "none"
  /\ LET w == execWatcher[c] IN
       /\ ~AssertNotTerminated(watcher[w])
       /\ Len(watcher[w].successHandlers) + Len(watcher[w].errorHandlers) < MaxHandlers
       /\ watcher' = [watcher EXCEPT ![w].errorHandlers = Append(@, h)]
       /\ lastCall' = [op |-> "onError", w |-> w, threw |-> FALSE]
       /\ nestedRegs' = nestedRegs \cup
            {[w |-> w, list |-> "error", idx |-> Len(watcher[w].errorHandlers) + 1]}
  /\ UNCHANGED <<ut, ipe, ipp>>
  /\ UNCHANGED <<variant, pc, execWatcher, txStarted, execOutcome, txOutcome,
                 callerOutcome, chain, events, successLogged, errorLogged>>

Next ==
  \/ \E c \in Calls : Call(c)
  \/ \E c \in Calls : TxBeginFail(c)
  \/ \E c \in Calls : TxCallback(c)
  \/ \E w \in Calls, h \in HandlerKinds : OnSuccess(w, h)
  \/ \E w \in Calls, h \in HandlerKinds : OnError(w, h)
  \/ \E w \in Calls : ReadClient(w)
  \/ \E c \in Calls, h \in HandlerKinds : NestedOnSuccess(c, h)
  \/ \E c \in Calls, h \in HandlerKinds : NestedOnError(c, h)
  \/ \E c \in Calls, v \in ResultValues : ExecReturn(c, v)
  \/ \E c \in Calls, e \in ExecErrors : ExecThrow(c, e)
  \/ \E c \in Calls : Commit(c)
  \/ \E c \in Calls : CommitFail(c)
  \/ \E c \in Calls : Rollback(c)
  \/ \E c \in Calls : SettleSuccess(c)
  \/ \E c \in Calls : SettleError(c)
  \/ \E w \in Calls : HandlerResolve(w)
  \/ \E w \in Calls : HandlerReject(w)
  \/ \E w \in Calls : LoggerCall(w)

Spec == Init /\ [][Next]_vars

\* The job queue runs every job that is ready: the code after
\* `await prisma.$transaction(...)` once that promise has settled, and the
\* handler loop's continuation once the awaited handler's promise has
\* resolved.
FairSpec ==
  /\ Init
  /\ [][Next]_vars
  /\ WF_vars(\E c \in Calls : SettleSuccess(c) \/ SettleError(c))
  /\ WF_vars(\E w \in Calls : HandlerResolve(w))

TypeOK ==
  /\ variant \in Variants
  /\ \A c \in Calls : pc[c] \in {"idle", "starting", "exec", "committing",
                                 "rollingBack", "settled", "returned"}
  /\ \A c \in Calls :
       Len(watcher[c].successHandlers) + Len(watcher[c].errorHandlers) <= MaxHandlers

(***************************************************************************)
(* useTransaction (src/src/utils/transaction.ts, src/src/prisma-helper.ts, *)
(* src/unnamed/part_000)                                                   *)
(***************************************************************************)

\* The PrismaClient the application was built with.
RootClient == [id |-> "prisma", isInstance |-> TRUE, hasTransaction |-> TRUE]

\* The client prisma.$transaction hands to the callback of call c. It has no
\* $transaction method; whether it is an instance of the PrismaClient class
\* depends on the Prisma version.
TxClient(c, inst) == [id |-> c, isInstance |-> inst, hasTransaction |-> FALSE]

\* The clients a caller can hold: the root client and the transaction
\* clients handed out so far.
AvailableClients ==
  {RootClient} \cup {ut[d].txClient : d \in {e \in UTCalls : ut[e].txClient # NoClient}}

StartsTransaction_InstanceOnly(cl) == cl.isInstance
\* if (prismaOrClient instanceof PrismaClient && prismaOrClient.$transaction)
StartsTransaction(cl) == cl.isInstance /\ cl.hasTransaction

\* useTransaction(prismaOrClient, exec) up to its first await.
UTCall(c, cl) ==
  /\ ut[c].pc = "idle"
  /\ IF StartsTransaction(cl)
     THEN ut' = [ut EXCEPT ![c].client = cl, ![c].pc = "starting",
                           ![c].txCount = @ + 1]
     ELSE ut' = [ut EXCEPT ![c].client = cl, ![c].pc = "exec",
                           ![c].execCount = @ + 1, ![c].execClient = cl]
  /\ UNCHANGED <<watchVars, ipe, ipp>>

\* prisma.$transaction rejects without having invoked exec.
UTBeginFail(c) ==
  /\ ut[c].pc = "starting"
  /\ ut' = [ut EXCEPT ![c].txOutcome = Rejected(BeginError), ![c].pc = "settled"]
  /\ UNCHANGED <<watchVars, ipe, ipp>>

\* prisma.$transaction invokes exec with a new transaction client.
UTCallback(c, inst) ==
  /\ ut[c].pc = "starting"
  /\ ut' = [ut EXCEPT ![c].txClient = TxClient(c, inst),
                      ![c].execClient = TxClient(c, inst),
                      ![c].execCount = @ + 1, ![c].pc = "exec"]
  /\ UNCHANGED <<watchVars, ipe, ipp>>

\* exec resolves with v: `return await exec(prismaOrClient)` returns it, a
\* transaction goes on to commit.
UTExecReturn(c, v) ==
  /\ ut[c].pc = "exec"
  /\ IF ut[c].txCount = 0
     THEN ut' = [ut EXCEPT ![c].execOutcome = Resolved(v),
                           ![c].outcome = Resolved(v), ![c].pc = "returned"]
     ELSE ut' = [ut EXCEPT ![c].execOutcome = Resolved(v), ![c].pc = "committing"]
  /\ UNCHANGED <<watchVars, ipe, ipp>>

\* exec rejects with e.
UTExecThrow(c, e) ==
  /\ ut[c].pc = "exec"
  /\ IF ut[c].txCount = 0
     THEN ut' = [ut EXCEPT ![c].execOutcome = Rejected(e),
                           ![c].outcome = Rejected(e), ![c].pc = "returned"]
     ELSE ut' = [ut EXCEPT ![c].execOutcome = Rejected(e), ![c].pc = "rollingBack"]
  /\ UNCHANGED <<watchVars, ipe, ipp>>

\* The commit succeeds: $transaction resolves with exec's value.
UTCommit(c) ==
  /\ ut[c].pc = "committing"
  /\ ut' = [ut EXCEPT ![c].txOutcome = ut[c].execOutcome, ![c].pc = "settled"]
  /\ UNCHANGED <<watchVars, ipe, ipp>>

\* The commit fails: $transaction rejects although exec returned normally.
UTCommitFail(c) ==
  /\ ut[c].pc = "committing"
  /\ ut' = [ut EXCEPT ![c].txOutcome = Rejected(CommitError), ![c].pc = "settled"]
  /\ UNCHANGED <<watchVars, ipe, ipp>>

\* The rollback completes: $transaction rejects with exec's error.
UTRollback(c) ==
  /\ ut[c].pc = "rollingBack"
  /\ ut' = [ut EXCEPT ![c].txOutcome = ut[c].execOutcome, ![c].pc = "settled"]
  /\ UNCHANGED <<watchVars, ipe, ipp>>

\* return await prismaOrClient.$transaction(exec);
UTReturn(c) ==
  /\ ut[c].pc = "settled"
  /\ ut' = [ut EXCEPT ![c].outcome = ut[c].txOutcome, ![c].pc = "returned"]
  /\ UNCHANGED <<watchVars, ipe, ipp>>

UTInit ==
  /\ Init
  /\ variant = "watcher"

UTNext ==
  \/ \E c \in UTCalls, cl \in AvailableClients : UTCall(c, cl)
  \/ \E c \in UTCalls : UTBeginFail(c)
  \/ \E c \in UTCalls, inst \in BOOLEAN : UTCallback(c, inst)
  \/ \E c \in UTCalls, v \in ResultValues : UTExecReturn(c, v)
  \/ \E c \in UTCalls, e \in ExecErrors : UTExecThrow(c, e)
  \/ \E c \in UTCalls : UTCommit(c)
  \/ \E c \in UTCalls : UTCommitFail(c)
  \/ \E c \in UTCalls : UTRollback(c)
  \/ \E c \in UTCalls : UTReturn(c)

SpecUseTransaction == UTInit /\ [][UTNext]_vars

(***************************************************************************)
(* isPrismaError(error, errorCode, targetList, modelName)                  *)
(* (src/unnamed/part_001, and PrismaHelper.isPrismaError in                *)
(* src/src/prisma-helper.ts lines 386-439)                                 *)
(* Strings are sequences of characters.                                    *)
(***************************************************************************)

\* Bounds: the length of targetList and of the array error.meta.target.
MaxTargetList == 2
MaxErrTargets == 2

SeqsUpTo(S, n) == UNION {[1..k -> S] : k \in 0..n}

\* A property of error.meta: absent, a string, an array, or something else
\* (a number, an object).
Absent == [t |-> "absent", s |-> <<>>, elems |-> <<>>]
OtherVal == [t |-> "other", s |-> <<>>, elems |-> <<>>]
StrVal(x) == [t |-> "string", s |-> x, elems |-> <<>>]
ArrVal(es) == [t |-> "array", s |-> <<>>, elems |-> es]

\* error.meta is undefined.
NoMeta == [present |-> FALSE, modelName |-> Absent, target |-> Absent,
           field_name |-> Absent]

ErrorCodes == {"P2002", "P2003"}
ModelNames == {<<"U">>, <<"P">>}
ErrStrings == {<<"a", "b">>, <<"b">>}
FieldStrings == {<<"a">>, <<"b", "a">>}
FilterStrings == {<<>>, <<"a">>, <<"b">>, <<"a", "b">>}

\* The elements of the array error.meta.target: strings and non-strings.
TargetElems ==
  {[isString |-> TRUE, s |-> x] : x \in ErrStrings} \cup {[isString |-> FALSE, s |-> <<>>]}

ModelNameVals == {Absent} \cup {StrVal(x) : x \in ModelNames}
TargetVals ==
  {Absent, OtherVal} \cup {StrVal(x) : x \in ErrStrings}
    \cup {ArrVal(es) : es \in SeqsUpTo(TargetElems, MaxErrTargets)}
FieldVals == {Absent, OtherVal} \cup {StrVal(x) : x \in FieldStrings}

Metas ==
  {NoMeta} \cup [present : {TRUE}, modelName : ModelNameVals, target : TargetVals,
                 field_name : FieldVals]

\* The values of the error argument: isKnown says whether it is an instance
\* of PrismaClientKnownRequestError.
ErrorValues == [isKnown : BOOLEAN, code : ErrorCodes, meta : Metas]

\* The values of the targetList argument: omitted, or a list of strings.
TargetListArgs ==
  {[given |-> FALSE, list |-> <<>>]}
    \cup {[given |-> TRUE, list |-> l] : l \in SeqsUpTo(FilterStrings, MaxTargetList)}

\* The values of the modelName argument: null (the default), "", a name.
NullName == [t |-> "null", s |-> <<>>]
ModelNameArgs == {NullName, [t |-> "string", s |-> <<>>], [t |-> "string", s |-> <<"U">>]}

\* String.prototype.includes
Includes(s, t) == \E i \in 0..(Len(s) - Len(t)) : SubSeq(s, i + 1, i + Len(t)) = t

WrongError_And(error, errorCode) == ~error.isKnown /\ error.code # errorCode
\* !(error instanceof Prisma.PrismaClientKnownRequestError) || error.code !== errorCode
WrongError(error, errorCode) == ~error.isKnown \/ error.code # errorCode

\* JavaScript truthiness of the modelName argument.
Truthy(modelName) == modelName.t = "string" /\ modelName.s # <<>>

ModelMismatch_MetaOnly(error, modelName) ==
  /\ error.meta.present
  /\ ~(error.meta.modelName.t = "string" /\ error.meta.modelName.s = modelName.s)
\* error.meta?.modelName !== modelName
ModelMismatch(error, modelName) ==
  ~(error.meta.present /\ error.meta.modelName.t = "string"
      /\ error.meta.modelName.s = modelName.s)

TargetMatches_Reversed(errTarget, target) == Includes(target, errTarget)
\* errTarget.includes(target) / fieldNames.includes(target)
TargetMatches(errTarget, target) == Includes(errTarget, target)

\* for (const target of targetList) { if (str.includes(target)) return true; }
AnyTargetIn(str, targetList) ==
  \E j \in 1..Len(targetList) : TargetMatches(str, targetList[j])

\* for (const errTarget of error.meta.target) { ... }
RECURSIVE FoundInTargets(_, _)
FoundInTargets(arr, targetList) ==
  IF arr = <<>> THEN FALSE
  ELSE IF ~Head(arr).isString THEN FoundInTargets(Tail(arr), targetList)
  ELSE IF AnyTargetIn(Head(arr).s, targetList) THEN TRUE
  ELSE FoundInTargets(Tail(arr), targetList)

IsPrismaError(error, errorCode, targetList, modelName) ==
  IF WrongError(error, errorCode) THEN FALSE
  ELSE IF Truthy(modelName) /\ ModelMismatch(error, modelName) THEN FALSE
  ELSE IF ~targetList.given \/ Len(targetList.list) = 0 THEN TRUE
  ELSE IF error.meta.target.t = "array"
          /\ FoundInTargets(error.meta.target.elems, targetList.list) THEN TRUE
  ELSE IF error.meta.field_name.t = "string"
          /\ AnyTargetIn(error.meta.field_name.s, targetList.list) THEN TRUE
  ELSE FALSE

\* The arguments of a call, before it is made.
IPEInputs ==
  [phase : {"input"}, error : ErrorValues, errorCode : ErrorCodes,
   targetList : TargetListArgs, modelName : ModelNameArgs, result : {FALSE}]

IPEInit ==
  /\ WatchInit
  /\ variant = "watcher"
  /\ ut = [c \in UTCalls |-> UTIdle]
  /\ ipp = IPPIdle
  /\ ipe \in IPEInputs

\* The call.
IPECall ==
  /\ ipe.phase = "input"
  /\ ipe' = [ipe EXCEPT !.phase = "done",
                        !.result = IsPrismaError(ipe.error, ipe.errorCode,
                                                 ipe.targetList, ipe.modelName)]
  /\ UNCHANGED <<watchVars, ut, ipp>>

IPENext == IPECall

SpecIsPrismaError == IPEInit /\ [][IPENext]_vars

(***************************************************************************)
(* PrismaHelper.isPrismaError(error, errorCode, metaPatterns,              *)
(* messagePatterns) (src/src/prisma-helper.ts lines 136-175)               *)
(***************************************************************************)

\* Bounds: the length of a pattern array, and the number of calls made with
\* the same arguments.
MaxPatterns == 2
MaxCalls == 2

KeyModelName == <<"m", "o", "d", "e", "l", "N", "a", "m", "e">>
KeyTarget == <<"t", "a", "r", "g", "e", "t">>

\* One property of error.meta: a string or an array of strings.
MetaString(k, x) == [key |-> k, kind |-> "string", s |-> x, elems |-> <<>>]
MetaArray(k, es) == [key |-> k, kind |-> "array", s |-> <<>>, elems |-> es]

\* The values of error.meta: undefined, {}, and objects with modelName and
\* target, in insertion order.
PatternMetas ==
  { [present |-> FALSE, entries |-> <<>>],
    [present |-> TRUE, entries |-> <<>>],
    [present |-> TRUE, entries |-> <<MetaString(KeyModelName, <<"U">>)>>],
    [present |-> TRUE, entries |-> <<MetaArray(KeyTarget, << <<"a">> >>)>>],
    [present |-> TRUE,
     entries |-> <<MetaString(KeyModelName, <<"U">>),
                   MetaArray(KeyTarget, << <<"a">>, <<"U">> >>)>>] }

Messages == {<<"d", "u", "p">>, <<"f", "k">>}

\* error: not an Error, an Error with another name, or an Error named
\* PrismaClientKnownRequestError.
PatternErrors ==
  [kind : {"notError", "otherError", "known"}, code : ErrorCodes,
   meta : PatternMetas, message : Messages]

PatternStrings == {<<>>, <<"U">>, <<"d", "u", "p">>}

\* The values of a pattern argument: undefined / null, a string, an array of
\* strings, or a RegExp that matches a literal text, with or without the g
\* flag, whose lastIndex is 0.
NoPattern == [t |-> "none", s |-> <<>>, list |-> <<>>, global |-> FALSE, lastIndex |-> 0]
PatternArgs ==
  {NoPattern}
    \cup {[NoPattern EXCEPT !.t = "string", !.s = x] : x \in PatternStrings}
    \cup {[NoPattern EXCEPT !.t = "array", !.list = l] :
            l \in SeqsUpTo(PatternStrings, MaxPatterns)}
    \cup {[NoPattern EXCEPT !.t = "regexp", !.s = x, !.global = g] :
            x \in PatternStrings \ {<<>>}, g \in BOOLEAN}

Quote(s) == <<"\"">> \o s \o <<"\"">>

\* The elements of a sequence of strings, separated by commas.
RECURSIVE JoinComma(_)
JoinComma(ss) ==
  IF ss = <<>> THEN <<>>
  ELSE IF Len(ss) = 1 THEN ss[1]
  ELSE ss[1] \o <<",">> \o JoinComma(Tail(ss))

\* JSON.stringify of one property and of an object.
JsonEntry(e) ==
  Quote(e.key) \o <<":">> \o
    (IF e.kind = "string" THEN Quote(e.s)
     ELSE <<"[">> \o JoinComma([i \in DOMAIN e.elems |-> Quote(e.elems[i])]) \o <<"]">>)
JsonStringify(entries) ==
  <<"{">> \o JoinComma([i \in DOMAIN entries |-> JsonEntry(entries[i])]) \o <<"}">>

\* JSON.stringify(prismaError.meta || {})
MetaStringOf(error) ==
  JsonStringify(IF error.meta.present THEN error.meta.entries ELSE <<>>)

\* RegExp.prototype.test: a RegExp without the g flag searches from the
\* start and keeps lastIndex; with the g flag it searches from lastIndex and
\* sets lastIndex to the end of the match, or to 0 when there is none.
RegExpTest(p, str) ==
  IF ~p.global
  THEN [result |-> Includes(str, p.s), pattern |-> p]
  ELSE LET found == {i \in p.lastIndex..(Len(str) - Len(p.s)) :
                       SubSeq(str, i + 1, i + Len(p.s)) = p.s}
       IN IF found = {}
          THEN [result |-> FALSE, pattern |-> [p EXCEPT !.lastIndex = 0]]
          ELSE LET i == CHOOSE m \in found : \A n \in found : m <= n
               IN [result |-> TRUE, pattern |-> [p EXCEPT !.lastIndex = i + Len(p.s)]]

\* JavaScript truthiness of a pattern argument.
PatternTruthy(p) == p.t \in {"array", "regexp"} \/ (p.t = "string" /\ p.s # <<>>)

\* Array.isArray(p) ? p.some(includes) : p instanceof RegExp ? p.test(str)
\* : str.includes(p)
PatternMatch(p, str) ==
  IF p.t = "array"
  THEN [result |-> \E j \in DOMAIN p.list : Includes(str, p.list[j]), pattern |-> p]
  ELSE IF p.t = "regexp" THEN RegExpTest(p, str)
  ELSE [result |-> Includes(str, p.s), pattern |-> p]

\* The function: its result and the pattern objects as it leaves them.
IsPrismaErrorByPatterns(error, errorCode, metaPatterns, messagePatterns) ==
  LET no == [result |-> FALSE, metaPatterns |-> metaPatterns,
             messagePatterns |-> messagePatterns]
  IN IF error.kind # "known" THEN no
     ELSE IF error.code # errorCode THEN no
     ELSE IF PatternTruthy(metaPatterns)
       THEN LET m == PatternMatch(metaPatterns, MetaStringOf(error))
            IN [result |-> m.result, metaPatterns |-> m.pattern,
                messagePatterns |-> messagePatterns]
     ELSE IF PatternTruthy(messagePatterns)
       THEN LET m == PatternMatch(messagePatterns, error.message)
            IN [result |-> m.result, metaPatterns |-> metaPatterns,
                messagePatterns |-> m.pattern]
     ELSE no

IPPInit ==
  /\ WatchInit
  /\ variant = "watcher"
  /\ ut = [c \in UTCalls |-> UTIdle]
  /\ ipe = IPEIdle
  /\ \E e \in PatternErrors, c \in ErrorCodes, mp \in PatternArgs, sp \in PatternArgs :
       ipp = [phase |-> "input", error |-> e, errorCode |-> c,
              metaPatterns |-> mp, messagePatterns |-> sp,
              metaPatterns0 |-> mp, messagePatterns0 |-> sp, results |-> <<>>]

\* One call with the arguments of the state; the pattern objects are shared
\* between the calls.
IPPCall ==
  /\ ipp.phase = "input"
  /\ Len(ipp.results) < MaxCalls
  /\ LET r == IsPrismaErrorByPatterns(ipp.error, ipp.errorCode, ipp.metaPatterns,
                                      ipp.messagePatterns)
     IN ipp' = [ipp EXCEPT !.results = Append(@, r.result),
                           !.metaPatterns = r.metaPatterns,
                           !.messagePatterns = r.messagePatterns]
  /\ UNCHANGED <<watchVars, ut, ipe>>

IPPNext == IPPCall

SpecIsPrismaErrorByPatterns == IPPInit /\ [][IPPNext]_vars

(***************************************************************************)
(* Properties                                                              *)
(***************************************************************************)

\* The events of watcher w, in the order they happened.
EventsOf(w) == LET OfW(e) == e.w = w IN SelectSeq(events, OfW)

\* Whether some handler of the given list of watcher w has been invoked.
Fired(w, list) ==
  \E i \in DOMAIN events :
    events[i].w = w /\ events[i].ev = "invoke" /\ events[i].list = list

\* C1: which handler list fires is decided by how prisma.$transaction
\* settled: success handlers are invoked only if it resolved, error handlers
\* only if it rejected, never both; when exec returned normally and the
\* commit failed, the error list is the one that was fired.
C1_ListFollowsTransaction ==
  \A c \in Calls :
    /\ Fired(c, "success") => txOutcome[c].kind = "resolved"
    /\ Fired(c, "error") => txOutcome[c].kind = "rejected"
    /\ ~(Fired(c, "success") /\ Fired(c, "error"))
    /\ chain[c].list = "success" => txOutcome[c].kind = "resolved"
    /\ chain[c].list = "error" => txOutcome[c].kind = "rejected"
    /\ (pc[c] = "returned" /\ watcher[c].created /\ execOutcome[c].kind = "resolved"
          /\ txOutcome[c].kind = "rejected") =>
         /\ chain[c].list = "error"
         /\ ~Fired(c, "success")
         /\ watcher[c].errorHandlers # <<>> => Fired(c, "error")

\* exec returned normally, the commit failed, an error handler ran and the
\* registered success handler did not.
C1_Witness ==
  /\ execOutcome["outer"].kind = "resolved"
  /\ txOutcome["outer"] = Rejected(CommitError)
  /\ watcher["outer"].successHandlers # <<>>
  /\ Fired("outer", "error")
  /\ ~Fired("outer", "success")

\* C2: every handler invocation happens after prisma.$transaction has
\* settled: while a call is starting, running exec, committing or rolling
\* back, no handler of its watcher has been invoked.
C2_NoHandlerInFlight ==
  \A i \in DOMAIN events :
    /\ txOutcome[events[i].w].kind # "none"
    /\ pc[events[i].w] \notin {"idle", "starting", "exec", "committing", "rollingBack"}

\* A handler was invoked after a rollback.
C2_Witness ==
  /\ execOutcome["outer"].kind = "rejected"
  /\ txOutcome["outer"].kind = "rejected"
  /\ Len(events) > 0
  /\ events[1].ev = "invoke"

\* C3: the call settles its caller's promise with the transaction's outcome
\* in the same job that starts the handlers: whenever the handler loop has
\* been entered (also while a handler's promise is pending forever), the
\* caller already has the result or the error.
C3_ReturnsWithoutWaiting ==
  \A c \in Calls :
    chain[c].state # "idle" =>
      /\ pc[c] = "returned"
      /\ callerOutcome[c].kind # "none"
      /\ callerOutcome[c].kind = txOutcome[c].kind

\* The loop is stuck on a handler whose promise never settles, and the
\* caller has its result.
C3_Witness ==
  /\ chain["outer"].state = "awaiting"
  /\ HandlersOf(watcher["outer"], chain["outer"].list)[chain["outer"].idx] = "hang"
  /\ callerOutcome["outer"].kind = "resolved"

\* C4: isTerminated is false while exec runs, and true once the call has
\* delivered its result or rethrown the error.
C4_TerminatedFlag ==
  \A c \in Calls :
    watcher[c].created =>
      /\ pc[c] = "exec" => ~watcher[c].isTerminated
      /\ pc[c] = "returned" => watcher[c].isTerminated
      /\ callerOutcome[c].kind # "none" => watcher[c].isTerminated

\* The error was rethrown after a rollback and the flag is set.
C4_Witness ==
  /\ watcher["outer"].created
  /\ watcher["outer"].isTerminated
  /\ callerOutcome["outer"].kind = "rejected"
  /\ execOutcome["outer"].kind = "rejected"

\* C5: once terminated a watcher stays terminated, both handler lists stay
\* as they are, and every later onSuccess / onError / client access throws.
C5_TerminatedIsFinal ==
  [][\A w \in Calls :
       watcher[w].isTerminated =>
         /\ watcher'[w].isTerminated
         /\ watcher'[w].successHandlers = watcher[w].successHandlers
         /\ watcher'[w].errorHandlers = watcher[w].errorHandlers
         /\ (lastCall' # lastCall /\ lastCall'.w = w) => lastCall'.threw]_vars

\* onSuccess was called on a terminated watcher and threw.
C5_Witness ==
  /\ watcher["outer"].isTerminated
  /\ lastCall = [op |-> "onSuccess", w |-> "outer", threw |-> TRUE]
  /\ Len(watcher["outer"].successHandlers) = 1

\* C6: handlers are invoked in registration order, one at a time: the k-th
\* invocation is of the k-th registered handler, and handler k+1 is invoked
\* only directly after the promise of handler k has resolved.
C6_InOrderOneAtATime ==
  \A w \in Calls :
    LET es == EventsOf(w) IN
    \A i \in DOMAIN es :
      es[i].ev = "invoke" =>
        LET k == es[i].idx
            hs == HandlersOf(watcher[w], es[i].list)
        IN /\ k \in 1..Len(hs)
           /\ es[i].h = hs[k]
           /\ k = 1 => i = 1
           /\ k > 1 => /\ i > 1
                       /\ es[i-1].ev = "resolve"
                       /\ es[i-1].list = es[i].list
                       /\ es[i-1].idx = k - 1

\* Two different handlers were registered and the second has been invoked.
C6_Witness ==
  /\ Len(watcher["outer"].errorHandlers) = 2
  /\ watcher["outer"].errorHandlers[1] # watcher["outer"].errorHandlers[2]
  /\ \E i \in DOMAIN events :
       events[i].ev = "invoke" /\ events[i].list = "error" /\ events[i].idx = 2

\* C7: in watchedTransaction's watcher the first success handler receives
\* the value the transaction resolved with, and each later one the value the
\* handler before it returned.
C7_SuccessValueChain ==
  variant = "watcher" =>
    \A w \in Calls :
      LET es == EventsOf(w) IN
      \A i \in DOMAIN es :
        (es[i].ev = "invoke" /\ es[i].list = "success") =>
          /\ es[i].idx = 1 => es[i].val = txOutcome[w].val
          /\ es[i].idx > 1 =>
               /\ i > 1
               /\ es[i-1].ev = "resolve"
               /\ es[i].val = es[i-1].val

\* The first handler returned a new value and the second received it.
C7_Witness ==
  /\ variant = "watcher"
  /\ Len(watcher["outer"].successHandlers) = 2
  /\ watcher["outer"].successHandlers[1] = "bump"
  /\ \E i \in DOMAIN events :
       /\ events[i].ev = "invoke" /\ events[i].list = "success"
       /\ events[i].idx = 2
       /\ events[i].val = txOutcome["outer"].val + 1

\* C8: when the transaction rejects with e after the watcher was created,
\* every invoked error handler receives e and the caller's promise rejects
\* with e.
C8_SameError ==
  \A c \in Calls :
    (watcher[c].created /\ txOutcome[c].kind = "rejected") =>
      /\ \A i \in DOMAIN events :
           (events[i].w = c /\ events[i].ev = "invoke") =>
             /\ events[i].list = "error"
             /\ events[i].err = txOutcome[c].err
      /\ pc[c] = "returned" => callerOutcome[c] = Rejected(txOutcome[c].err)

\* The second error handler received exec's error and the caller got it too.
C8_Witness ==
  /\ txOutcome["outer"] = Rejected("e1")
  /\ callerOutcome["outer"] = Rejected("e1")
  /\ \E i \in DOMAIN events :
       events[i].ev = "invoke" /\ events[i].idx = 2 /\ events[i].err = "e1"

\* C9: the error of a failed success handler goes to
\* successHandlerErrorLogger, that of a failed error handler to
\* errorHandlerErrorLogger, and the caller's outcome stays the transaction's.
C9_HandlerFailureIsLogged ==
  /\ \A c \in Calls :
       /\ chain[c].state = "logged" =>
            /\ chain[c].list = "success" =>
                 successLogged = <<HandlerError>> /\ errorLogged = <<>>
            /\ chain[c].list = "error" =>
                 errorLogged = <<HandlerError>> /\ successLogged = <<>>
       /\ chain[c].state \in {"failed", "logged"} =>
            /\ \E i \in DOMAIN events :
                 /\ events[i].w = c /\ events[i].ev = "reject"
                 /\ events[i].err = HandlerError
            /\ txOutcome[c].kind = "resolved" =>
                 callerOutcome[c] = Resolved(txOutcome[c].val)
            /\ txOutcome[c].kind = "rejected" =>
                 callerOutcome[c] = Rejected(txOutcome[c].err)
  /\ (successLogged # <<>> \/ errorLogged # <<>>) =>
       \E c \in Calls : chain[c].state = "logged"

\* A success handler failed, its error was logged and the caller has the
\* transaction's result.
C9_Witness ==
  /\ chain["outer"].state = "logged"
  /\ chain["outer"].list = "success"
  /\ successLogged = <<HandlerError>>
  /\ callerOutcome["outer"] = Resolved(5)

\* C10: a call given an existingWatcher starts no transaction, creates no
\* watcher, passes that very watcher to exec, and none of its steps sets
\* isTerminated, invokes a handler or calls a logger.
C10_ExistingWatcherFrame ==
  /\ [](/\ ~txStarted["nested"]
        /\ ~watcher["nested"].created
        /\ pc["nested"] # "idle" => execWatcher["nested"] = ExistingWatcher("nested")
        /\ pc["nested"] = "returned" => callerOutcome["nested"] = execOutcome["nested"])
  /\ [][pc'["nested"] # pc["nested"] =>
          /\ watcher' = watcher
          /\ chain' = chain
          /\ events' = events
          /\ successLogged' = successLogged
          /\ errorLogged' = errorLogged]_vars

\* The nested call's exec threw while the outer transaction is still open.
C10_Witness ==
  /\ pc["nested"] = "returned"
  /\ callerOutcome["nested"].kind = "rejected"
  /\ pc["outer"] = "exec"
  /\ ~watcher["outer"].isTerminated
  /\ watcher["outer"].successHandlers # <<>>

\* Whether a client is a root PrismaClient / a transaction client.
IsRoot(cl) == cl.isInstance /\ cl.hasTransaction
IsTransactionClient(cl) == cl # NoClient /\ ~cl.hasTransaction

\* C11 as stated: with a root client useTransaction starts exactly one
\* transaction and runs exec in it, with a transaction client it starts none
\* and calls exec once with that client; in both cases the caller gets exec's
\* result or exec's error.
C11_UseTransaction_AsStated ==
  \A c \in UTCalls :
    ut[c].pc = "returned" =>
      /\ IsRoot(ut[c].client) =>
           /\ ut[c].txCount = 1
           /\ ut[c].execCount = 1
           /\ ut[c].execClient = ut[c].txClient
      /\ IsTransactionClient(ut[c].client) =>
           /\ ut[c].txCount = 0
           /\ ut[c].execCount = 1
           /\ ut[c].execClient = ut[c].client
      /\ ut[c].execOutcome.kind # "none"
      /\ ut[c].outcome = ut[c].execOutcome

\* C11, amended: with a root client exactly one transaction is started and
\* exec runs at most once, with that transaction's client; with a
\* transaction client none is started and exec runs once with that same
\* client. The caller gets exec's error if exec threw, exec's result if exec
\* returned and (for a new transaction) the commit succeeded, and otherwise
\* the error $transaction itself rejected with.
C11_UseTransaction ==
  \A c \in UTCalls :
    /\ ut[c].pc # "idle" =>
         /\ IsRoot(ut[c].client) =>
              /\ ut[c].txCount = 1
              /\ ut[c].execCount <= 1
              /\ ut[c].execCount = 1 =>
                   ut[c].execClient = ut[c].txClient /\ ut[c].txClient # NoClient
         /\ IsTransactionClient(ut[c].client) =>
              /\ ut[c].txCount = 0
              /\ ut[c].execCount = 1
              /\ ut[c].execClient = ut[c].client
    /\ ut[c].pc = "returned" =>
         /\ ut[c].execOutcome.kind = "rejected" => ut[c].outcome = ut[c].execOutcome
         /\ (ut[c].execOutcome.kind = "resolved" /\ ut[c].txOutcome.kind # "rejected") =>
              ut[c].outcome = ut[c].execOutcome
         /\ (ut[c].execOutcome.kind # "rejected" /\ ut[c].txOutcome.kind = "rejected") =>
              ut[c].outcome = ut[c].txOutcome
         /\ ut[c].outcome.kind # "none"

\* A call with the root client committed, and a call made with that
\* transaction's client ran exec in it and got exec's error.
C11_Witness ==
  /\ ut["first"].pc = "returned"
  /\ IsRoot(ut["first"].client)
  /\ ut["first"].outcome = Resolved(5)
  /\ ut["second"].pc = "returned"
  /\ ut["second"].client = ut["first"].txClient
  /\ ut["second"].client.isInstance
  /\ ut["second"].execClient = ut["first"].txClient
  /\ ut["second"].outcome = Rejected("e1")

\* C12: isPrismaError returns false whenever error is not a known request
\* error or its code differs from errorCode, whatever targetList and
\* modelName are.
C12_WrongErrorIsFalse ==
  (ipe.phase = "done" /\ (~ipe.error.isKnown \/ ipe.error.code # ipe.errorCode))
    => ipe.result = FALSE

\* A known request error with another code, whose model and target would
\* both have matched, was classified false.
C12_Witness ==
  /\ ipe.phase = "done"
  /\ ipe.error.isKnown
  /\ ipe.error.code = "P2003"
  /\ ipe.errorCode = "P2002"
  /\ ipe.modelName = [t |-> "string", s |-> <<"U">>]
  /\ ipe.error.meta.present
  /\ ipe.error.meta.modelName = StrVal(<<"U">>)
  /\ ipe.error.meta.target = ArrVal(<<[isString |-> TRUE, s |-> <<"a", "b">>]>>)
  /\ ipe.targetList = [given |-> TRUE, list |-> << <<"a">> >>]
  /\ ipe.result = FALSE

\* C13: with a non-empty modelName the result is true only if
\* error.meta.modelName is exactly that name (an error without meta or
\* without meta.modelName never matches); with modelName null the result
\* does not depend on error.meta.modelName.
C13_ModelNameFilter ==
  ipe.phase = "done" =>
    /\ (ipe.modelName.t = "string" /\ ipe.modelName.s # <<>> /\ ipe.result) =>
         /\ ipe.error.meta.present
         /\ ipe.error.meta.modelName = StrVal(ipe.modelName.s)
    /\ (ipe.modelName = NullName /\ ipe.error.meta.present) =>
         \A mv \in ModelNameVals :
           IsPrismaError([ipe.error EXCEPT !.meta.modelName = mv], ipe.errorCode,
                         ipe.targetList, ipe.modelName) = ipe.result

\* Only the model name stood between the error and a match.
C13_Witness ==
  /\ ipe.phase = "done"
  /\ ipe.error.isKnown
  /\ ipe.error.code = ipe.errorCode
  /\ ipe.modelName = [t |-> "string", s |-> <<"U">>]
  /\ ipe.error.meta.present
  /\ ipe.error.meta.modelName = StrVal(<<"P">>)
  /\ ~ipe.targetList.given
  /\ ipe.result = FALSE

\* Whether the model filter of the call lets the error through.
ModelFilterPasses ==
  \/ ipe.modelName.t = "null"
  \/ ipe.modelName.s = <<>>
  \/ /\ ipe.error.meta.present
     /\ ipe.error.meta.modelName = StrVal(ipe.modelName.s)

\* C14: for a known request error with the right code that passes the model
\* filter, the result is true if targetList is omitted or empty, and
\* otherwise exactly when some element of targetList is a substring of a
\* string element of the array error.meta.target or of the string
\* error.meta.field_name.
C14_TargetListFilter ==
  (ipe.phase = "done" /\ ipe.error.isKnown /\ ipe.error.code = ipe.errorCode
     /\ ModelFilterPasses) =>
    ipe.result =
      (\/ ~ipe.targetList.given
       \/ ipe.targetList.list = <<>>
       \/ \E j \in DOMAIN ipe.targetList.list :
            LET t == ipe.targetList.list[j]
                tg == ipe.error.meta.target
                fn == ipe.error.meta.field_name
            IN \/ /\ tg.t = "array"
                  /\ \E i \in DOMAIN tg.elems :
                       tg.elems[i].isString /\ Includes(tg.elems[i].s, t)
               \/ fn.t = "string" /\ Includes(fn.s, t))

\* The second filter string was found in the string element that follows a
\* non-string element of error.meta.target.
C14_Witness ==
  /\ ipe.phase = "done"
  /\ ipe.error.meta.target =
       ArrVal(<<[isString |-> FALSE, s |-> <<>>], [isString |-> TRUE, s |-> <<"b">>]>>)
  /\ ipe.error.meta.field_name = OtherVal
  /\ ipe.targetList = [given |-> TRUE, list |-> << <<"a">>, <<"b">> >>]
  /\ ipe.result = TRUE

\* Whether a string satisfies a pattern argument as it was passed in.
Satisfies(p, str) ==
  IF p.t = "array" THEN \E j \in DOMAIN p.list : Includes(str, p.list[j])
  ELSE Includes(str, p.s)

\* C15: the pattern-based isPrismaError is true exactly when error is a
\* PrismaClientKnownRequestError with code errorCode that satisfies every
\* pattern argument that was supplied: with no pattern a code match alone
\* yields true, with both patterns both must match.
C15_MatchesAllCriteria ==
  Len(ipp.results) >= 1 =>
    ipp.results[1] =
      (/\ ipp.error.kind = "known"
       /\ ipp.error.code = ipp.errorCode
       /\ ipp.metaPatterns0.t # "none" =>
            Satisfies(ipp.metaPatterns0, MetaStringOf(ipp.error))
       /\ ipp.messagePatterns0.t # "none" =>
            Satisfies(ipp.messagePatterns0, ipp.error.message))

\* C16: isPrismaError is pure: a call leaves its pattern arguments as they
\* were, and two calls with the same arguments return the same boolean.
C16_Pure ==
  /\ Len(ipp.results) >= 1 =>
       /\ ipp.metaPatterns = ipp.metaPatterns0
       /\ ipp.messagePatterns = ipp.messagePatterns0
  /\ Len(ipp.results) >= 2 => ipp.results[2] = ipp.results[1]

\* C17: a handler registered by the nested call's exec through the existing
\* watcher is invoked only after the outermost transaction has settled, and
\* only if that outcome is the one of its list; when the nested exec threw
\* and the outer transaction committed, the success list is the one fired
\* and no error handler runs.
C17_NestedHandlersFollowOuter ==
  /\ \A r \in nestedRegs :
       \A i \in DOMAIN events :
         (events[i].ev = "invoke" /\ events[i].w = r.w /\ events[i].list = r.list
            /\ events[i].idx = r.idx) =>
           /\ pc["outer"] = "returned"
           /\ txOutcome["outer"].kind =
                (IF r.list = "success" THEN "resolved" ELSE "rejected")
  /\ (execOutcome["nested"].kind = "rejected" /\ txOutcome["outer"].kind = "resolved"
        /\ pc["outer"] = "returned") =>
       /\ chain["outer"].list = "success"
       /\ ~Fired("outer", "error")
       /\ watcher["outer"].successHandlers # <<>> => Fired("outer", "success")

\* The nested exec registered a success and an error handler and threw; the
\* outer transaction committed and the nested success handler was invoked.
C17_Witness ==
  /\ execOutcome["nested"].kind = "rejected"
  /\ txOutcome["outer"].kind = "resolved"
  /\ nestedRegs = {[w |-> "outer", list |-> "success", idx |-> 1],
                   [w |-> "outer", list |-> "error", idx |-> 1]}
  /\ \E i \in DOMAIN events :
       /\ events[i].ev = "invoke" /\ events[i].w = "outer"
       /\ events[i].list = "success" /\ events[i].idx = 1

\* The handlers of the list that watcher w fired all complete without error.
AllComplete(w) ==
  /\ chain[w].list # "none"
  /\ \A k \in DOMAIN HandlersOf(watcher[w], chain[w].list) :
       HandlersOf(watcher[w], chain[w].list)[k] \in {"keep", "bump"}

\* Every handler of the fired list of watcher w has been invoked and the
\* loop is over.
AllInvoked(w) ==
  /\ chain[w].state = "done"
  /\ \A k \in DOMAIN HandlersOf(watcher[w], chain[w].list) :
       \E i \in DOMAIN events :
         /\ events[i].w = w /\ events[i].ev = "invoke"
         /\ events[i].list = chain[w].list /\ events[i].idx = k

\* C18: once the transaction has settled the call fires a handler list, and
\* if every handler of the fired list completes without error, every
\* handler of that list is eventually invoked and the loop finishes.
C18_HandlersEventuallyRun ==
  /\ (pc["outer"] = "settled") ~> (pc["outer"] = "returned")
  /\ (watcher["outer"].isTerminated /\ AllComplete("outer")) ~> AllInvoked("outer")

\* Two handlers that complete were registered, both were invoked and the
\* loop is over.
C18_Witness ==
  /\ AllComplete("outer")
  /\ AllInvoked("outer")
  /\ Len(HandlersOf(watcher["outer"], chain["outer"].list)) = 2
====
